---- MODULE Spec2Model ----
(***************************************************************************)
(* Model of the Sensu Sumo Logic handler (src/main.go, the generation with *)
(* handler templates, lines 326-700).  One process handles one event:      *)
(* checkArgs validates the global plugin configuration, executeHandler     *)
(* renders the source templates, encodes the metric points, decides which  *)
(* deliveries to make and performs them (sendMetrics, then sendLog).       *)
(* The only suspension points are the two blocking HTTP round trips, so    *)
(* the handler is cut into actions exactly there; the collector's answer   *)
(* is the environment's choice.                                            *)
(***************************************************************************)
EXTENDS Integers, Sequences, FiniteSets, TLC

VARIABLES
    plugin,     \* the global Config record (main.go:345-363, 372)
    event,      \* the event handed to checkArgs and executeHandler
    pc,         \* where the process is
    local,      \* executeHandler's locals: dataString, doMetrics, doLog
    wire,       \* requests handed to client.Do, in order
    answers,    \* what client.Do returned for each request on the wire
    stdout,     \* dry-run reports printed with fmt.Printf, in order
    sends,      \* the sendMetrics and sendLog calls made, with what each returned
    unclosed,   \* response bodies obtained and not closed
    stderr,     \* lines written with log.Printf, in order
    result,     \* what checkArgs / executeHandler returned
    calls,      \* executeHandler calls made by this process so far
    prior       \* outputs of the previous executeHandler call (or Nil)

vars == <<plugin, event, pc, local, wire, answers, stdout, sends, unclosed,
          stderr, result, calls, prior>>

----------------------------------------------------------------------------
(* Bounds *)

\* longest list of metric points in an event
MaxPoints == 2
\* executeHandler calls made in one process (a test calls it repeatedly)
MaxCalls == 2

\* a Go pointer: Nil, or Ref(v) pointing at v
Nil == <<>>
Ref(v) == <<v>>
Deref(p) == p[1]

----------------------------------------------------------------------------
(* int64 arithmetic.  TLC's integers are 32 bits wide, so an int64 is kept *)
(* as a sign and its decimal digits, most significant first, without       *)
(* leading zeros; zero is <<0>>.                                           *)

Zero64 == [neg |-> FALSE, dig |-> <<0>>]

IsZero64(v) == v.dig = <<0>>

Zeros(k) == [i \in 1..k |-> 0]

\* 2^63 and 2^64 in decimal digits
Two63 == <<9,2,2,3,3,7,2,0,3,6,8,5,4,7,7,5,8,0,8>>
Two64 == <<1,8,4,4,6,7,4,4,0,7,3,7,0,9,5,5,1,6,1,6>>

PadTo(d, n) == Zeros(n - Len(d)) \o d

RECURSIVE Strip(_)
Strip(d) == IF Len(d) > 1 /\ Head(d) = 0 THEN Strip(Tail(d)) ELSE d

\* a < b for digit sequences without leading zeros
RECURSIVE LexLess(_, _)
LexLess(a, b) ==
    IF a = <<>> THEN FALSE
    ELSE IF Head(a) # Head(b) THEN Head(a) < Head(b)
    ELSE LexLess(Tail(a), Tail(b))

MagLess(a, b) ==
    IF Len(a) # Len(b) THEN Len(a) < Len(b) ELSE LexLess(a, b)

\* a - b for equal-length digit sequences with a >= b; borrow runs from the
\* least significant digit.  Returns <<digits, borrow>>.
RECURSIVE SubDigits(_, _)
SubDigits(a, b) ==
    IF a = <<>> THEN <<(<<>>), 0>>
    ELSE LET rest == SubDigits(Tail(a), Tail(b))
             d    == Head(a) - Head(b) - rest[2]
         IN  IF d < 0 THEN <<(<<d + 10>>) \o rest[1], 1>>
                      ELSE <<(<<d>>) \o rest[1], 0>>

MagSub(a, b) ==
    LET n == IF Len(a) > Len(b) THEN Len(a) ELSE Len(b)
    IN  Strip(SubDigits(PadTo(a, n), PadTo(b, n))[1])

\* the int64 that Go's wrapping arithmetic keeps of a non-negative product
\* below 2^64: values from 2^63 up come out negative
Wrap64(mag) ==
    IF MagLess(mag, Two63) THEN [neg |-> FALSE, dig |-> mag]
    ELSE [neg |-> TRUE, dig |-> MagSub(Two64, mag)]

\* v * 10^k in int64 (|v| * 10^k < 2^64 for every use below)
MulPow10(v, k) ==
    IF IsZero64(v) THEN Zero64
    ELSE IF v.neg THEN [neg |-> TRUE, dig |-> v.dig \o Zeros(k)]
    ELSE Wrap64(v.dig \o Zeros(k))

\* v / 10^k, Go's integer division (truncates toward zero)
DivPow10(v, k) ==
    IF Len(v.dig) <= k THEN Zero64
    ELSE [neg |-> v.neg, dig |-> SubSeq(v.dig, 1, Len(v.dig) - k)]

RECURSIVE DigitsToString(_)
DigitsToString(d) ==
    IF d = <<>> THEN "" ELSE ToString(Head(d)) \o DigitsToString(Tail(d))

\* fmt's %v of an int64
FormatInt64(v) == (IF v.neg THEN "-" ELSE "") \o DigitsToString(v.dig)

----------------------------------------------------------------------------
(* Events (corev2.Event, as far as the handler reads it) *)

Tag(n, v) == [Name |-> n, Value |-> v]

Point(n, v, ts, tags) ==
    [Name |-> n, Value |-> v, Timestamp |-> ts, Tags |-> tags]

\* sample timestamps, one per magnitude band (main_test.go:53-56)
nsStamp == [neg |-> FALSE, dig |-> <<1,6,2,4,3,7,6,0,3,9,3,7,3,1,1,1,1,2,2>>]
sStamp  == [neg |-> FALSE, dig |-> <<1,6,2,4,3,7,6,0,3,9>>]

PointPool ==
    { Point("answer", 42, nsStamp, <<Tag("foo", "bar")>>),
      Point("load", 7, sStamp, <<>>) }

RECURSIVE SeqsUpTo(_, _)
SeqsUpTo(S, n) ==
    IF n = 0 THEN {<<>>}
    ELSE LET shorter == SeqsUpTo(S, n - 1)
         IN  shorter \cup {Append(q, x) : q \in shorter, x \in S}

\* event.Metrics is a pointer: Nil, or a Metrics value holding the points
MetricsPool ==
    {Nil} \cup {Ref([Points |-> q]) : q \in SeqsUpTo(PointPool, MaxPoints)}

\* event.Check is a pointer too
CheckPool == {Nil, Ref([Name |-> "check1"])}

\* an event the framework accepts carries a check or metrics
Events ==
    { [Timestamp |-> sStamp, Entity |-> [Name |-> "entity1"],
       Check |-> c, Metrics |-> m] :
        c \in CheckPool, m \in MetricsPool } \
    { [Timestamp |-> sStamp, Entity |-> [Name |-> "entity1"],
       Check |-> Nil, Metrics |-> Nil] }

----------------------------------------------------------------------------
(* convertMetrics, main.go:583-613 *)

\* The smallest positive int64 n for which math.Log10(float64(n)) >= k, for
\* the k of the switch at main.go:596-609.  float64 holds every integer
\* below 2^53 exactly, and Log10 (Log2(x) * (Ln2/Ln10), math/log10.go)
\* returns exactly 10 and 13 at 10^10 and 10^13 and less just below them.
\* Above 2^53 the conversion rounds to even integers and the doubles next
\* to 16 are 3.6e-15 apart: every n from 9999999999999958 on already gives
\* Log10 = 16.
Log10Reaches(k) ==
    IF k = 16 THEN <<9,9,9,9,9,9,9,9,9,9,9,9,9,9,5,8>>
    ELSE <<1>> \o Zeros(k)

\* mutant: the comparison is <= instead of <
Log10BelowOrAt(ts, k) ==
    IF IsZero64(ts) THEN TRUE
    ELSE IF ts.neg THEN FALSE
    ELSE ~MagLess(Log10Reaches(k), ts.dig)

\* math.Log10(float64(timestamp)) < k.  Log10 of 0 is -Inf (below every
\* k); of a negative number NaN, for which every comparison is false.
Log10Below(ts, k) ==
    IF IsZero64(ts) THEN TRUE
    ELSE IF ts.neg THEN FALSE
    ELSE MagLess(ts.dig, Log10Reaches(k))

\* mutant: the default case leaves the timestamp as it is
msTimestampNoDefault(ts) ==
    IF Log10Below(ts, 10) THEN DivPow10(MulPow10(ts, 9), 6)
    ELSE IF Log10Below(ts, 13) THEN ts
    ELSE IF Log10Below(ts, 16) THEN DivPow10(MulPow10(ts, 3), 6)
    ELSE ts

\* the switch at main.go:596-609
msTimestamp(ts) ==
    IF Log10Below(ts, 10) THEN DivPow10(MulPow10(ts, 9), 6)
    ELSE IF Log10Below(ts, 13) THEN ts
    ELSE IF Log10Below(ts, 16) THEN DivPow10(MulPow10(ts, 3), 6)
    ELSE DivPow10(ts, 6)

\* mutant: the separator follows every tag, the last one too
RECURSIVE TagsFromTrailing(_, _)
TagsFromTrailing(tags, i) ==
    IF i > Len(tags) THEN ""
    ELSE tags[i].Name \o "=\"" \o tags[i].Value \o "\", "
         \o TagsFromTrailing(tags, i + 1)

\* the inner loop, main.go:586-593
RECURSIVE TagsFrom(_, _)
TagsFrom(tags, i) ==
    IF i > Len(tags) THEN ""
    ELSE LET one == tags[i].Name \o "=\"" \o tags[i].Value \o "\""
         IN  IF Len(tags) = i THEN one
             ELSE one \o ", " \o TagsFrom(tags, i + 1)

\* main.go:610
PointLine(p) ==
    p.Name \o "{" \o TagsFrom(p.Tags, 1) \o "} " \o ToString(p.Value)
           \o " " \o FormatInt64(msTimestamp(p.Timestamp)) \o "\n"

\* mutant: each line is put in front of the output instead of after it
RECURSIVE LinesFromPrepending(_, _)
LinesFromPrepending(points, i) ==
    IF i > Len(points) THEN ""
    ELSE LinesFromPrepending(points, i + 1) \o PointLine(points[i])

\* the outer loop, main.go:584-611
RECURSIVE LinesFrom(_, _)
LinesFrom(points, i) ==
    IF i > Len(points) THEN ""
    ELSE PointLine(points[i]) \o LinesFrom(points, i + 1)

\* ranging over event.Metrics.Points dereferences event.Metrics: a nil
\* pointer there panics
convertMetricsPanics(ev) == ev.Metrics = Nil

convertMetrics(ev) == LinesFrom(Deref(ev.Metrics).Points, 1)

----------------------------------------------------------------------------
(* The plugin configuration, main.go:345-490 *)

defaultHostTemplate == "{{ .Entity.Name }}"
defaultNameTemplate == "{{ .Check.Name }}"
defaultCategoryTemplate == ""

\* a URL http.NewRequest cannot parse, and one it can
BadUrl  == ":collector"
GoodUrl == "https://collector.example/receiver/v1/http/x"

\* the values the options can bind; SourceHost, SourceName and
\* SourceCategory are bound by no option and start empty, MetricMetadata's
\* option is commented out (main.go:471-480)
Configs ==
    [ Url : {"", BadUrl, GoodUrl},
      Format : {"prometheus", "carbon2"},
      Verbose : {FALSE},
      DryRun : BOOLEAN,
      AlwaysSendLog : BOOLEAN,
      DisableSendLog : BOOLEAN,
      DisableSendMetrics : BOOLEAN,
      SourceName : {""},
      SourceNameTemplate : {"", defaultNameTemplate},
      SourceHost : {""},
      SourceHostTemplate : {"", defaultHostTemplate},
      SourceCategory : {""},
      SourceCategoryTemplate : {defaultCategoryTemplate, defaultNameTemplate},
      MetricDimensions : {"", "environment=production"},
      MetricMetadata : {""},
      LogFields : {"", "team=ops"} ]

----------------------------------------------------------------------------
(* checkArgs, main.go:497-508 *)

NoResult == [kind |-> "none"]
Ok == [kind |-> "nil"]
ConfigError(msg) == [kind |-> "config", msg |-> msg]

\* mutant: the URL is not checked
checkArgsAnyUrl(pl) ==
    IF pl.Format # "prometheus"
    THEN [err |-> ConfigError("requested --metrics-format is not supported yet"),
          plugin |-> pl]
    ELSE [err |-> Ok,
          plugin |-> IF pl.DryRun THEN [pl EXCEPT !.Verbose = TRUE] ELSE pl]

checkArgs(pl) ==
    IF Len(pl.Url) = 0
    THEN [err |-> ConfigError("--url or SUMOLOGIC_URL environment variable is required"),
          plugin |-> pl]
    ELSE IF pl.Format # "prometheus"
    THEN [err |-> ConfigError("requested --metrics-format is not supported yet"),
          plugin |-> pl]
    ELSE [err |-> Ok,
          plugin |-> IF pl.DryRun THEN [pl EXCEPT !.Verbose = TRUE] ELSE pl]

----------------------------------------------------------------------------
(* renderTemplates, main.go:554-581 *)

\* templates.EvalTemplate on the templates of the pool: a field of a nil
\* Check cannot be evaluated
EvalTemplate(tmpl, ev) ==
    IF tmpl = defaultHostTemplate
    THEN [err |-> FALSE, out |-> ev.Entity.Name]
    ELSE IF tmpl = defaultNameTemplate
    THEN IF ev.Check = Nil THEN [err |-> TRUE, out |-> ""]
         ELSE [err |-> FALSE, out |-> Deref(ev.Check).Name]
    ELSE [err |-> FALSE, out |-> tmpl]

\* mutant: the rendered host is stored in the template field
renderTemplatesIntoTemplate(pl, ev) ==
    LET host == EvalTemplate(pl.SourceHostTemplate, ev)
        name == EvalTemplate(pl.SourceNameTemplate, ev)
        cat  == EvalTemplate(pl.SourceCategoryTemplate, ev)
        doHost == Len(pl.SourceHostTemplate) > 0
        doName == Len(pl.SourceNameTemplate) > 0
        doCat  == Len(pl.SourceCategoryTemplate) > 0
        p1 == IF doHost THEN [pl EXCEPT !.SourceHostTemplate = host.out] ELSE pl
        p2 == IF doName THEN [p1 EXCEPT !.SourceName = name.out] ELSE p1
        p3 == IF doCat THEN [p2 EXCEPT !.SourceCategory = cat.out] ELSE p2
    IN  IF doHost /\ host.err THEN [err |-> TRUE, plugin |-> pl]
        ELSE IF doName /\ name.err THEN [err |-> TRUE, plugin |-> p1]
        ELSE IF doCat /\ cat.err THEN [err |-> TRUE, plugin |-> p2]
        ELSE [err |-> FALSE, plugin |-> p3]

\* returns the configuration as renderTemplates leaves it and whether it
\* returned an error; it returns at the first template that fails
renderTemplates(pl, ev) ==
    LET host == EvalTemplate(pl.SourceHostTemplate, ev)
        name == EvalTemplate(pl.SourceNameTemplate, ev)
        cat  == EvalTemplate(pl.SourceCategoryTemplate, ev)
        doHost == Len(pl.SourceHostTemplate) > 0
        doName == Len(pl.SourceNameTemplate) > 0
        doCat  == Len(pl.SourceCategoryTemplate) > 0
        p1 == IF doHost THEN [pl EXCEPT !.SourceHost = host.out] ELSE pl
        p2 == IF doName THEN [p1 EXCEPT !.SourceName = name.out] ELSE p1
        p3 == IF doCat THEN [p2 EXCEPT !.SourceCategory = cat.out] ELSE p2
    IN  IF doHost /\ host.err THEN [err |-> TRUE, plugin |-> pl]
        ELSE IF doName /\ name.err THEN [err |-> TRUE, plugin |-> p1]
        ELSE IF doCat /\ cat.err THEN [err |-> TRUE, plugin |-> p2]
        ELSE [err |-> FALSE, plugin |-> p3]

----------------------------------------------------------------------------
(* Requests and errors of sendMetrics and sendLog, main.go:615-700 *)

\* http.NewRequest fails on a URL it cannot parse (the empty URL parses)
NewRequestFails(url) == url = BadUrl

\* mutant: the header is added whatever its value
OptionalAlways(name, value) == {<<name, value>>}

\* req.Header.Add when the value is not empty
Optional(name, value) == IF Len(value) > 0 THEN {<<name, value>>} ELSE {}

\* mutant: the content type does not name the format
metricsRequestPlainType(pl, dataString) ==
    [ Method |-> "POST", Url |-> pl.Url, Body |-> dataString,
      Header |-> {<<"Content-Type", "application/vnd.sumologic">>}
                 \cup Optional("X-Sumo-Host", pl.SourceHost)
                 \cup Optional("X-Sumo-Name", pl.SourceName)
                 \cup Optional("X-Sumo-Category", pl.SourceCategory)
                 \cup Optional("X-Sumo-Dimensions", pl.MetricDimensions)
                 \cup Optional("X-Sumo-Metadata", pl.MetricMetadata) ]

\* the request sendMetrics has built when it reaches main.go:639
metricsRequest(pl, dataString) ==
    [ Method |-> "POST", Url |-> pl.Url, Body |-> dataString,
      Header |-> {<<"Content-Type", "application/vnd.sumologic." \o pl.Format>>}
                 \cup Optional("X-Sumo-Host", pl.SourceHost)
                 \cup Optional("X-Sumo-Name", pl.SourceName)
                 \cup Optional("X-Sumo-Category", pl.SourceCategory)
                 \cup Optional("X-Sumo-Dimensions", pl.MetricDimensions)
                 \cup Optional("X-Sumo-Metadata", pl.MetricMetadata) ]

\* the request sendLog has built when it reaches main.go:680
logRequest(pl, dataString) ==
    [ Method |-> "POST", Url |-> pl.Url, Body |-> dataString,
      Header |-> Optional("X-Sumo-Host", pl.SourceHost)
                 \cup Optional("X-Sumo-Name", pl.SourceName)
                 \cup Optional("X-Sumo-Category", pl.SourceCategory)
                 \cup Optional("X-Sumo-Fields", pl.LogFields) ]

\* mutant: the report is printed without the headers
dryRunReportNoHeaders(title, req) ==
    [ Title |-> title, Method |-> req.Method, Url |-> req.Url,
      Header |-> {}, Data |-> req.Body ]

\* the dry-run report: method, URL, headers and the body read back from
\* the request (main.go:641-643, 682-684)
dryRunReport(title, req) ==
    [ Title |-> title, Method |-> req.Method, Url |-> req.Url,
      Header |-> req.Header, Data |-> req.Body ]

\* fmt.Errorf("New Http Request failed: %s", err)
NewRequestError(url) == [kind |-> "newrequest", url |-> url]
\* fmt.Errorf("POST <what> to %s failed: %s", plugin.Url, err)
TransportError(what, url) ==
    [kind |-> "transport", what |-> what, url |-> url, cause |-> "dial tcp: refused"]
\* fmt.Errorf("POST <what> to %s failed with status %v", plugin.Url, resp.Status)
StatusError(what, url, status) ==
    [kind |-> "status", what |-> what, url |-> url, status |-> status]

\* what client.Do can return: a transport error, or a response with a status
Statuses == {199, 200, 299, 300}
Answers == {[err |-> TRUE, status |-> 0]} \cup
           {[err |-> FALSE, status |-> s] : s \in Statuses}

\* mutant: 200 is taken for a failure
StatusOkAbove200(status) == ~(status <= 200 \/ status > 299)

\* main.go:652 and 693
StatusOk(status) == ~(status < 200 \/ status > 299)

\* json.Marshal(event): check and metrics are omitted when nil
RECURSIVE PointsJson(_, _)
PointsJson(points, i) ==
    IF i > Len(points) THEN ""
    ELSE "{\"name\":\"" \o points[i].Name \o "\",\"value\":"
         \o ToString(points[i].Value) \o ",\"timestamp\":"
         \o FormatInt64(points[i].Timestamp) \o ",\"tags\":"
         \o ToString(Len(points[i].Tags)) \o "}"
         \o (IF i < Len(points) THEN "," ELSE "")
         \o PointsJson(points, i + 1)

jsonMarshal(ev) ==
    "{\"timestamp\":" \o FormatInt64(ev.Timestamp)
    \o ",\"entity\":\"" \o ev.Entity.Name \o "\""
    \o (IF ev.Check = Nil THEN ""
        ELSE ",\"check\":\"" \o Deref(ev.Check).Name \o "\"")
    \o (IF ev.Metrics = Nil THEN ""
        ELSE ",\"metrics\":[" \o PointsJson(Deref(ev.Metrics).Points, 1) \o "]")
    \o "}"

----------------------------------------------------------------------------
(* The process *)

NoLocals == [dataString |-> "", doMetrics |-> FALSE, doLog |-> FALSE]

Panic == [kind |-> "panic"]

\* the templates and header values are varied for the configurations that
\* can deliver; the others run with the defaults of the options
DefaultSources(pl) ==
    /\ pl.SourceHostTemplate = defaultHostTemplate
    /\ pl.SourceNameTemplate = defaultNameTemplate
    /\ pl.SourceCategoryTemplate = defaultCategoryTemplate
    /\ pl.MetricDimensions = ""
    /\ pl.LogFields = ""

Init ==
    /\ plugin \in Configs
    /\ (plugin.Url = GoodUrl /\ plugin.Format = "prometheus") \/ DefaultSources(plugin)
    /\ event \in Events
    /\ pc = "start"
    /\ local = NoLocals
    /\ wire = <<>>
    /\ answers = <<>>
    /\ stdout = <<>>
    /\ sends = <<>>
    /\ unclosed = 0
    /\ stderr = <<>>
    /\ result = NoResult
    /\ calls = 0
    /\ prior = Nil

\* the framework calls checkArgs once the flags are bound and the event is
\* read, and executeHandler only when it returned nil (main.go:492-495)
CheckArgs ==
    /\ pc = "start"
    /\ LET r == checkArgs(plugin)
       IN  /\ plugin' = r.plugin
           /\ IF r.err = Ok
              THEN pc' = "checked" /\ result' = NoResult
              ELSE pc' = "exit" /\ result' = r.err
    /\ UNCHANGED <<event, local, wire, answers, stdout, sends, unclosed,
                   stderr, calls, prior>>

\* what one executeHandler call has put out so far
Output == [wire |-> wire, stdout |-> stdout, sends |-> sends]

Put(io) ==
    /\ wire' = io.wire
    /\ stdout' = io.stdout
    /\ sends' = io.sends

\* sendMetrics or sendLog is entered and returns ret without blocking
Sent(io, fn, ret) == [io EXCEPT !.sends = Append(@, [fn |-> fn, ret |-> ret])]

\* the same, having printed a dry-run report
Reported(io, fn, report) ==
    [Sent(io, fn, [kind |-> "nil"]) EXCEPT !.stdout = Append(@, report)]

\* sendMetrics or sendLog is entered and blocks in client.Do
Posted(io, fn, req) ==
    [Sent(io, fn, [kind |-> "none"]) EXCEPT
        !.wire = Append(@, [by |-> fn, req |-> req])]

\* the blocked sendMetrics or sendLog returns ret
Answered(io, ret) == [io EXCEPT !.sends[Len(io.sends)].ret = ret]

\* executeHandler returns err
Return(err, io) ==
    /\ pc' = "done"
    /\ result' = err
    /\ Put(io)

\* mutant: sendLog does not look at dry-run
LogPhaseNoDryRun(pl, ev, doLog, io) ==
    IF ~doLog THEN Return(Ok, io)
    ELSE IF NewRequestFails(pl.Url)
    THEN Return(NewRequestError(pl.Url),
                Sent(io, "sendLog", NewRequestError(pl.Url)))
    ELSE /\ pc' = "logInFlight"
         /\ result' = NoResult
         /\ Put(Posted(io, "sendLog", logRequest(pl, jsonMarshal(ev))))

\* main.go:540-551 with sendLog up to client.Do (main.go:660-688); io is
\* the output as the metric delivery left it
LogPhase(pl, ev, doLog, io) ==
    IF ~doLog THEN Return(Ok, io)
    ELSE LET msg == jsonMarshal(ev)
         IN  IF NewRequestFails(pl.Url)
             THEN Return(NewRequestError(pl.Url),
                         Sent(io, "sendLog", NewRequestError(pl.Url)))
             ELSE IF pl.DryRun
             THEN Return(Ok, Reported(io, "sendLog",
                                      dryRunReport("Dry Run Log Request",
                                                   logRequest(pl, msg))))
             ELSE /\ pc' = "logInFlight"
                  /\ result' = NoResult
                  /\ Put(Posted(io, "sendLog", logRequest(pl, msg)))

\* mutant: the error of http.NewRequest is not looked at and the nil request
\* is dereferenced
MetricsPhaseUnchecked(pl, ev, dataString, doMetrics, doLog) ==
    IF ~doMetrics THEN LogPhase(pl, ev, doLog, Output)
    ELSE IF NewRequestFails(pl.Url)
    THEN /\ pc' = "panic"
         /\ result' = Panic
         /\ Put(Sent(Output, "sendMetrics", Panic))
    ELSE IF pl.DryRun
    THEN LogPhase(pl, ev, doLog,
                  Reported(Output, "sendMetrics",
                           dryRunReport("Dry Run Metric Request",
                                        metricsRequest(pl, dataString))))
    ELSE /\ pc' = "metricsInFlight"
         /\ result' = NoResult
         /\ Put(Posted(Output, "sendMetrics", metricsRequest(pl, dataString)))

\* main.go:533-538 with sendMetrics up to client.Do (main.go:615-647)
MetricsPhase(pl, ev, dataString, doMetrics, doLog) ==
    IF ~doMetrics THEN LogPhase(pl, ev, doLog, Output)
    ELSE IF NewRequestFails(pl.Url)
    THEN Return(NewRequestError(pl.Url),
                Sent(Output, "sendMetrics", NewRequestError(pl.Url)))
    ELSE IF pl.DryRun
    THEN LogPhase(pl, ev, doLog,
                  Reported(Output, "sendMetrics",
                           dryRunReport("Dry Run Metric Request",
                                        metricsRequest(pl, dataString))))
    ELSE /\ pc' = "metricsInFlight"
         /\ result' = NoResult
         /\ Put(Posted(Output, "sendMetrics", metricsRequest(pl, dataString)))

\* mutant: the payload is not looked at
decideMetricsAnyPayload(pl, dataString) ==
    IF pl.DisableSendMetrics THEN FALSE ELSE TRUE

\* main.go:520-523
decideMetrics(pl, dataString) ==
    IF pl.DisableSendMetrics THEN FALSE ELSE Len(dataString) > 0

\* main.go:524-527
decideLog(pl, dataString) ==
    IF pl.DisableSendLog THEN FALSE
    ELSE pl.AlwaysSendLog \/ Len(dataString) = 0

\* mutant: executeHandler returns the error of renderTemplates
ExecuteHandlerStrict ==
    /\ pc = "checked"
    /\ calls < MaxCalls
    /\ calls' = calls + 1
    /\ LET r  == renderTemplates(plugin, event)
           pl == r.plugin
       IN  /\ plugin' = pl
           /\ IF r.err
              THEN /\ Return([kind |-> "template"], Output)
                   /\ stderr' = Append(stderr, [msg |-> "Error rendering templates"])
                   /\ UNCHANGED local
              ELSE IF convertMetricsPanics(event)
              THEN /\ pc' = "panic"
                   /\ result' = Panic
                   /\ UNCHANGED <<local, wire, stdout, sends, stderr>>
              ELSE LET dataString == convertMetrics(event)
                       doMetrics  == decideMetrics(pl, dataString)
                       doLog      == decideLog(pl, dataString)
                   IN  /\ local' = [dataString |-> dataString,
                                    doMetrics |-> doMetrics, doLog |-> doLog]
                       /\ stderr' = IF pl.Verbose
                                    THEN Append(stderr,
                                           [msg |-> "Metrics Output Format",
                                            format |-> pl.Format,
                                            sendMetrics |-> doMetrics,
                                            sendLog |-> doLog])
                                    ELSE stderr
                       /\ MetricsPhase(pl, event, dataString, doMetrics, doLog)
    /\ UNCHANGED <<event, answers, unclosed, prior>>

\* executeHandler from its entry to its first blocking call or its return,
\* main.go:510-552
ExecuteHandler ==
    /\ pc = "checked"
    /\ calls < MaxCalls
    /\ calls' = calls + 1
    /\ LET r  == renderTemplates(plugin, event)
           pl == r.plugin
           warned == IF r.err
                     THEN Append(stderr, [msg |-> "Error rendering templates"])
                     ELSE stderr
       IN  /\ plugin' = pl
           /\ IF convertMetricsPanics(event)
              THEN /\ pc' = "panic"
                   /\ result' = Panic
                   /\ stderr' = warned
                   /\ UNCHANGED <<local, wire, stdout, sends>>
              ELSE LET dataString == convertMetrics(event)
                       doMetrics  == decideMetrics(pl, dataString)
                       doLog      == decideLog(pl, dataString)
                   IN  /\ local' = [dataString |-> dataString,
                                    doMetrics |-> doMetrics, doLog |-> doLog]
                       /\ stderr' = IF pl.Verbose
                                    THEN Append(warned,
                                           [msg |-> "Metrics Output Format",
                                            format |-> pl.Format,
                                            sendMetrics |-> doMetrics,
                                            sendLog |-> doLog])
                                    ELSE warned
                       /\ MetricsPhase(pl, event, dataString, doMetrics, doLog)
    /\ UNCHANGED <<event, answers, unclosed, prior>>

\* what sendMetrics ("metrics") or sendLog ("log") returns once client.Do
\* has returned a, main.go:647-658 and 688-699
sendReturns(what, url, a) ==
    IF a.err THEN TransportError(what, url)
    ELSE IF ~StatusOk(a.status) THEN StatusError(what, url, a.status)
    ELSE Ok

\* the deferred Close is registered only after the status check
\* (main.go:652-656, 693-697): a response with a bad status stays open
leftOpen(a) == IF ~a.err /\ ~StatusOk(a.status) THEN 1 ELSE 0

\* mutant: a failed metric delivery does not stop executeHandler
MetricsAnswerBestEffort(a) ==
    /\ pc = "metricsInFlight"
    /\ answers' = Append(answers, a)
    /\ unclosed' = unclosed + leftOpen(a)
    /\ LET ret == sendReturns("metrics", plugin.Url, a)
       IN  LogPhase(plugin, event, local.doLog, Answered(Output, ret))
    /\ UNCHANGED <<plugin, event, local, stderr, calls, prior>>

\* client.Do returns in sendMetrics, and executeHandler goes on
\* (main.go:534-551)
MetricsAnswer(a) ==
    /\ pc = "metricsInFlight"
    /\ answers' = Append(answers, a)
    /\ unclosed' = unclosed + leftOpen(a)
    /\ LET ret == sendReturns("metrics", plugin.Url, a)
       IN  IF ret # Ok
           THEN Return(ret, Answered(Output, ret))
           ELSE LogPhase(plugin, event, local.doLog, Answered(Output, ret))
    /\ UNCHANGED <<plugin, event, local, stderr, calls, prior>>

\* mutant: a log request that failed is sent once more
LogAnswerRetrying(a) ==
    /\ pc = "logInFlight"
    /\ answers' = Append(answers, a)
    /\ unclosed' = unclosed + leftOpen(a)
    /\ LET ret == sendReturns("log", plugin.Url, a)
           n   == Cardinality({i \in 1..Len(wire) : wire[i].by = "sendLog"})
       IN  IF ret # Ok /\ n < 2
           THEN /\ pc' = "logInFlight"
                /\ result' = NoResult
                /\ Put(Posted(Answered(Output, ret), "sendLog",
                              wire[Len(wire)].req))
           ELSE Return(ret, Answered(Output, ret))
    /\ UNCHANGED <<plugin, event, local, stderr, calls, prior>>

\* client.Do returns in sendLog, and executeHandler returns
\* (main.go:545-551)
LogAnswer(a) ==
    /\ pc = "logInFlight"
    /\ answers' = Append(answers, a)
    /\ unclosed' = unclosed + leftOpen(a)
    /\ LET ret == sendReturns("log", plugin.Url, a)
       IN  Return(ret, Answered(Output, ret))
    /\ UNCHANGED <<plugin, event, local, stderr, calls, prior>>

\* a test calls executeHandler again in the same process on the same event
\* after switching dry-run (main_test.go:158-159, 207-208, 25-29); what
\* the finished call produced is kept for comparison
CallAgain ==
    /\ pc = "done"
    /\ calls < MaxCalls
    /\ prior' = Ref([plugin |-> plugin, local |-> local, wire |-> wire,
                     answers |-> answers, stdout |-> stdout, sends |-> sends,
                     result |-> result])
    /\ plugin' = [plugin EXCEPT !.DryRun = ~@]
    /\ pc' = "checked"
    /\ local' = NoLocals
    /\ wire' = <<>>
    /\ answers' = <<>>
    /\ stdout' = <<>>
    /\ sends' = <<>>
    /\ result' = NoResult
    /\ UNCHANGED <<event, unclosed, stderr, calls>>

Next ==
    \/ CheckArgs
    \/ ExecuteHandler
    \/ \E a \in Answers : MetricsAnswer(a)
    \/ \E a \in Answers : LogAnswer(a)
    \/ CallAgain

Spec == Init /\ [][Next]_vars

----------------------------------------------------------------------------
(* convertMetrics called on its own, as the tests call it                  *)
(* (TestConvertMetric, TestConvertMetricWithNilTags,                       *)
(* TestConvertMetricWithNilMetrics, TestConvertMetricWithNilMetricsPoints) *)

\* longest tag list of a metric point
MaxTags == 2

I64(d) == [neg |-> FALSE, dig |-> d]

\* timestamps: in each band the smallest and the largest value and a
\* present-day one, the values next to where the int64 intermediates of
\* main.go:599 and 604 wrap (2^63 / 10^9 and 2^63 / 10^3), the values next
\* to where Log10 reaches 16, and zero and a negative value
TimestampPool ==
    { I64(<<1>>),
      I64(<<1,6,2,4,3,7,6,0,3,9>>),
      I64(<<9,2,2,3,3,7,2,0,3,6>>),
      I64(<<9,2,2,3,3,7,2,0,3,7>>),
      I64(<<9,9,9,9,9,9,9,9,9,9>>),
      I64(<<1,0,0,0,0,0,0,0,0,0,0>>),
      I64(<<1,6,2,4,3,7,6,0,3,9,3,7,3>>),
      I64(<<9,9,9,9,9,9,9,9,9,9,9,9,9>>),
      I64(<<1,0,0,0,0,0,0,0,0,0,0,0,0,0>>),
      I64(<<1,6,2,4,3,7,6,0,3,9,3,7,3,1,1,1>>),
      I64(<<9,2,2,3,3,7,2,0,3,6,8,5,4,7,7,5>>),
      I64(<<9,2,2,3,3,7,2,0,3,6,8,5,4,7,7,6>>),
      I64(<<9,9,9,9,9,9,9,9,9,9,9,9,9,9,5,7>>),
      I64(<<9,9,9,9,9,9,9,9,9,9,9,9,9,9,5,8>>),
      I64(<<9,9,9,9,9,9,9,9,9,9,9,9,9,9,9,9>>),
      I64(<<1,0,0,0,0,0,0,0,0,0,0,0,0,0,0,0,0>>),
      I64(<<9,2,2,3,3,7,2,0,3,6,8,5,4,7,7,5,8,0,7>>),
      nsStamp, Zero64,
      [neg |-> TRUE, dig |-> sStamp.dig] }

TagPool == {Tag("foo", "bar"), Tag("hey", "there")}

\* the points the tests convert: the fixture point "answer" = 42 with each
\* timestamp, and with each tag list
ConvertPoints ==
    { Point("answer", 42, t, <<>>) : t \in TimestampPool } \cup
    { Point("answer", 42, nsStamp, tags) : tags \in SeqsUpTo(TagPool, MaxTags) } \cup
    PointPool

\* event.Check = nil; event.Metrics nil, or with nil (empty) or some points
ConvertEvents ==
    { [Timestamp |-> sStamp, Entity |-> [Name |-> "entity1"],
       Check |-> Nil, Metrics |-> m] :
        m \in {Nil} \cup
              {Ref([Points |-> q]) : q \in SeqsUpTo(ConvertPoints, MaxPoints)} }

\* the plugin as clearPlugin leaves it, with the default templates
TestConfig ==
    [ Url |-> GoodUrl, Format |-> "prometheus", Verbose |-> FALSE,
      DryRun |-> FALSE, AlwaysSendLog |-> FALSE, DisableSendLog |-> FALSE,
      DisableSendMetrics |-> FALSE,
      SourceName |-> "", SourceNameTemplate |-> defaultNameTemplate,
      SourceHost |-> "", SourceHostTemplate |-> defaultHostTemplate,
      SourceCategory |-> "", SourceCategoryTemplate |-> defaultCategoryTemplate,
      MetricDimensions |-> "", MetricMetadata |-> "", LogFields |-> "" ]

ConvertInit ==
    /\ plugin = TestConfig
    /\ event \in ConvertEvents
    /\ pc = "convert"
    /\ local = NoLocals
    /\ wire = <<>>
    /\ answers = <<>>
    /\ stdout = <<>>
    /\ sends = <<>>
    /\ unclosed = 0
    /\ stderr = <<>>
    /\ result = NoResult
    /\ calls = 0
    /\ prior = Nil

\* dataString, err := convertMetrics(event)
ConvertMetrics ==
    /\ pc = "convert"
    /\ IF convertMetricsPanics(event)
       THEN /\ pc' = "panic"
            /\ result' = Panic
            /\ UNCHANGED local
       ELSE /\ pc' = "converted"
            /\ result' = Ok
            /\ local' = [local EXCEPT !.dataString = convertMetrics(event)]
    /\ UNCHANGED <<plugin, event, wire, answers, stdout, sends, unclosed,
                   stderr, calls, prior>>

ConvertNext == ConvertMetrics

ConvertSpec == ConvertInit /\ [][ConvertNext]_vars

----------------------------------------------------------------------------
(* executeHandler called repeatedly in one process with the templates set  *)
(* before each call, as TestExecuteHandler does after the other tests      *)

\* the configurations of these calls: a valid URL, both channels enabled
TemplateConfigs ==
    { pl \in Configs :
        /\ pl.Url = GoodUrl
        /\ pl.Format = "prometheus"
        /\ ~pl.DisableSendLog
        /\ ~pl.DisableSendMetrics
        /\ pl.MetricDimensions = ""
        /\ pl.LogFields = "" }

\* the source-category templates of these calls: none (the default), a
\* field of the check, a literal
CategoryTemplates == {defaultCategoryTemplate, defaultNameTemplate, "sensu-events"}

TemplateInit ==
    /\ \E pl \in TemplateConfigs, c \in CategoryTemplates :
          plugin = [pl EXCEPT !.SourceCategoryTemplate = c]
    /\ event \in Events
    /\ pc = "checked"
    /\ local = NoLocals
    /\ wire = <<>>
    /\ answers = <<>>
    /\ stdout = <<>>
    /\ sends = <<>>
    /\ unclosed = 0
    /\ stderr = <<>>
    /\ result = NoResult
    /\ calls = 0
    /\ prior = Nil

\* the test sets plugin.SourceNameTemplate, SourceHostTemplate and
\* SourceCategoryTemplate and calls executeHandler on the event; what the
\* earlier call left in the plugin stays
SetTemplates ==
    /\ pc = "done"
    /\ calls < MaxCalls
    /\ \E h \in {"", defaultHostTemplate},
          n \in {"", defaultNameTemplate},
          c \in CategoryTemplates :
          plugin' = [plugin EXCEPT !.SourceHostTemplate = h,
                                   !.SourceNameTemplate = n,
                                   !.SourceCategoryTemplate = c]
    /\ pc' = "checked"
    /\ local' = NoLocals
    /\ wire' = <<>>
    /\ answers' = <<>>
    /\ stdout' = <<>>
    /\ sends' = <<>>
    /\ result' = NoResult
    /\ UNCHANGED <<event, unclosed, stderr, calls, prior>>

TemplateNext ==
    \/ ExecuteHandler
    \/ \E a \in Answers : MetricsAnswer(a)
    \/ \E a \in Answers : LogAnswer(a)
    \/ SetTemplates

TemplateSpec == TemplateInit /\ [][TemplateNext]_vars

----------------------------------------------------------------------------
(* Vocabulary of the properties *)

\* sendMetrics / sendLog has been called in the current executeHandler call
Called(fn) == \E i \in 1..Len(sends) : sends[i].fn = fn

\* executeHandler has got past convertMetrics and made its decision
Decided == pc \in {"metricsInFlight", "logInFlight", "done"}

\* executeHandler is over: it returned or it panicked
Over == pc \in {"done", "panic"}

\* the encoded metric payload of the event, where there is one
HasPayload == ~convertMetricsPanics(event) /\ Len(convertMetrics(event)) > 0
EmptyPayload == ~convertMetricsPanics(event) /\ Len(convertMetrics(event)) = 0

----------------------------------------------------------------------------
(* C1..C10: routing, delivery and argument checking *)

\* C1: executeHandler calls sendMetrics if and only if disable-send-metrics
\* is not set and the encoded metric payload is not empty; no metric request
\* or report has an empty body; and with an empty payload and metrics
\* enabled nothing but the log delivery can make executeHandler fail.
C1_MetricsIffEnabledAndPayload ==
    /\ Over \/ Decided =>
          (Called("sendMetrics") <=> (~plugin.DisableSendMetrics /\ HasPayload))
    /\ \A i \in 1..Len(wire) :
          wire[i].by = "sendMetrics" => Len(wire[i].req.Body) > 0
    /\ \A i \in 1..Len(stdout) :
          stdout[i].Title = "Dry Run Metric Request" => Len(stdout[i].Data) > 0
    /\ (pc = "done" /\ EmptyPayload /\ ~plugin.DisableSendMetrics /\ result # Ok)
          => (Called("sendLog") /\ sends[Len(sends)].ret = result)

\* C1 witness: a metric request went out and was accepted, metrics enabled
C1_Witness ==
    /\ pc = "done"
    /\ ~plugin.DisableSendMetrics
    /\ HasPayload
    /\ Len(wire) >= 1
    /\ wire[1].by = "sendMetrics"
    /\ result = Ok

\* C2: whether the log delivery is made depends only on disable-send-log,
\* not on the metric points: with both channels enabled, a live call that
\* returned nil has called sendLog, and for an event with metric points it
\* has put two requests on the wire.
C2_LogIndependentOfMetrics ==
    (pc = "done" /\ result = Ok /\ ~plugin.DryRun
        /\ ~plugin.DisableSendLog /\ ~plugin.DisableSendMetrics) =>
        /\ Called("sendLog")
        /\ HasPayload => Len(wire) = 2

\* no option set
NoRoutingFlags ==
    /\ ~plugin.AlwaysSendLog
    /\ ~plugin.DisableSendLog
    /\ ~plugin.DisableSendMetrics

\* C3: with none of always-send-log, disable-send-log, disable-send-metrics
\* set, executeHandler selects exactly one delivery for every event: the
\* metric delivery when the payload is not empty, otherwise the log
\* delivery.
C3_ExactlyOneDelivery ==
    (NoRoutingFlags /\ Over) =>
        /\ Len(sends) = 1
        /\ sends[1].fn = (IF HasPayload THEN "sendMetrics" ELSE "sendLog")

\* what C3 leaves when the event carries a metrics collection
C3_ExactlyOneDeliveryGivenMetrics ==
    (NoRoutingFlags /\ Over /\ event.Metrics # Nil) =>
        /\ Len(sends) = 1
        /\ sends[1].fn = (IF HasPayload THEN "sendMetrics" ELSE "sendLog")

\* the metric delivery of the current call failed
MetricsFailed ==
    \E i \in 1..Len(sends) :
        sends[i].fn = "sendMetrics" /\ sends[i].ret \notin {Ok, NoResult}

\* C4: with always-send-log set and disable-send-log not set, every
\* executeHandler call makes the log delivery (after the metric delivery,
\* when there is one and it succeeded), and makes the metric delivery too
\* when the payload is not empty and metrics are not disabled.
C4_AlwaysSendLog ==
    (plugin.AlwaysSendLog /\ ~plugin.DisableSendLog /\ Over) =>
        /\ Called("sendLog") \/ MetricsFailed
        /\ (HasPayload /\ ~plugin.DisableSendMetrics) => Called("sendMetrics")

\* what C4 leaves when the event carries a metrics collection
C4_AlwaysSendLogGivenMetrics ==
    (plugin.AlwaysSendLog /\ ~plugin.DisableSendLog /\ Over
        /\ event.Metrics # Nil) =>
        /\ Called("sendLog") \/ MetricsFailed
        /\ (HasPayload /\ ~plugin.DisableSendMetrics) => Called("sendMetrics")

\* C5: the metric delivery comes first and is over before the log delivery
\* starts: sendLog is only ever called after sendMetrics returned nil, a log
\* request follows a metric request on the wire only once the metric request
\* has been answered with a good status, and when sendMetrics fails
\* executeHandler returns that error without calling sendLog.
C5_MetricsBeforeLog ==
    /\ \A i, j \in 1..Len(sends) :
          (sends[i].fn = "sendLog" /\ sends[j].fn = "sendMetrics")
              => (j < i /\ sends[j].ret = [kind |-> "nil"])
    /\ \A i, j \in 1..Len(wire) :
          (wire[i].by = "sendLog" /\ wire[j].by = "sendMetrics")
              => /\ j < i
                 /\ Len(answers) >= j
                 /\ ~answers[j].err
                 /\ answers[j].status \in 200..299
    /\ \A i, j \in 1..Len(stdout) :
          (stdout[i].Title = "Dry Run Log Request"
              /\ stdout[j].Title = "Dry Run Metric Request") => j < i
    /\ pc = "metricsInFlight" => ~Called("sendLog")
    /\ (pc = "done" /\ MetricsFailed)
          => /\ ~Called("sendLog")
             /\ \E i \in 1..Len(sends) :
                   sends[i].fn = "sendMetrics" /\ result = sends[i].ret

\* C5 witness: both deliveries were made in live mode, metric first
C5_Witness ==
    /\ pc = "done"
    /\ Len(wire) = 2
    /\ wire[1].by = "sendMetrics"
    /\ wire[2].by = "sendLog"
    /\ result = Ok

\* C6 as claimed: in dry-run mode nothing goes on the wire and
\* executeHandler never returns an error, whatever the URL.
C6_DryRunAlwaysSucceeds ==
    plugin.DryRun =>
        /\ wire = <<>>
        /\ pc \notin {"metricsInFlight", "logInFlight"}
        /\ \A i \in 1..Len(sends) : sends[i].ret = [kind |-> "nil"]
        /\ pc = "done" => result = [kind |-> "nil"]

\* C6 amended: in dry-run mode nothing goes on the wire; sendMetrics and
\* sendLog return nil whenever the request can be built from the URL,
\* whatever the payload, and return the construction error otherwise.
C6_DryRunNoNetwork ==
    plugin.DryRun =>
        /\ wire = <<>>
        /\ answers = <<>>
        /\ pc \notin {"metricsInFlight", "logInFlight"}
        /\ \A i \in 1..Len(sends) :
              IF plugin.Url = BadUrl
              THEN sends[i].ret.kind = "newrequest"
              ELSE sends[i].ret = [kind |-> "nil"]
        /\ pc = "done" =>
              IF plugin.Url = BadUrl /\ Len(sends) > 0
              THEN result.kind = "newrequest"
              ELSE result = [kind |-> "nil"]

\* C6 witness: a dry run that reported both deliveries and returned nil
C6_Witness ==
    /\ plugin.DryRun
    /\ pc = "done"
    /\ Len(stdout) = 2
    /\ Len(sends) = 2
    /\ result = Ok

\* the report printed for a request: the same method, URL, headers and body
SameAsRequest(report, req) ==
    /\ report.Method = req.Method
    /\ report.Url = req.Url
    /\ report.Header = req.Header
    /\ report.Data = req.Body

ReportTitle(fn) ==
    IF fn = "sendMetrics" THEN "Dry Run Metric Request"
    ELSE "Dry Run Log Request"

\* the reports of a dry run against the requests of a live run of the same
\* event under the same configuration: request i of the live run is report i
\* of the dry run, and a live run that returned nil sent as many requests as
\* the dry run printed reports
ReportsMatch(reports, live) ==
    /\ Len(live.wire) <= Len(reports)
    /\ \A i \in 1..Len(live.wire) :
          /\ SameAsRequest(reports[i], live.wire[i].req)
          /\ reports[i].Title = ReportTitle(live.wire[i].by)
    /\ (live.pc = "done" /\ live.result = [kind |-> "nil"])
          => Len(live.wire) = Len(reports)

C8_SuccessIffStatus2xx ==
    \A i \in 1..Len(answers) :
        LET a   == answers[i]
            ret == sends[i].ret
        IN  /\ sends[i].fn = wire[i].by
            /\ (ret = [kind |-> "nil"]) <=> (~a.err /\ a.status >= 200 /\ a.status <= 299)
            /\ ret # [kind |-> "nil"] =>
                  /\ ret.url = wire[i].req.Url
                  /\ ret.what = (IF wire[i].by = "sendMetrics" THEN "metrics" ELSE "log")
                  /\ IF a.err THEN ret.kind = "transport" /\ Len(ret.cause) > 0
                     ELSE ret.kind = "status" /\ ret.status = a.status

\* C8 witness: the metric request was answered 299 and accepted, the log
\* request was answered 300 and executeHandler returned that error
C8_Witness ==
    /\ pc = "done"
    /\ Len(answers) = 2
    /\ answers[1].status = 299
    /\ ~answers[2].err
    /\ answers[2].status = 300
    /\ result.kind = "status"
    /\ result.status = 300

\* C9: with an empty URL checkArgs returns an error and the process ends:
\* executeHandler is never entered, nothing goes on the wire and no dry-run
\* report is printed.
C9_EmptyUrlRejected ==
    Len(plugin.Url) = 0 =>
        /\ pc \in {"start", "exit"}
        /\ pc = "exit" => result.kind = "config"
        /\ wire = <<>>
        /\ stdout = <<>>
        /\ sends = <<>>
        /\ calls = 0

\* C9 witness: checkArgs has rejected an empty URL
C9_Witness ==
    /\ Len(plugin.Url) = 0
    /\ pc = "exit"
    /\ result.kind = "config"

\* C10: a configuration with both channels disabled is rejected with a
\* configuration error, even when the URL is valid: the process does not
\* get to return nil from executeHandler having sent nothing.
C10_NeitherChannelRejected ==
    (plugin.DisableSendMetrics /\ plugin.DisableSendLog
        /\ plugin.Url = GoodUrl /\ plugin.Format = "prometheus") =>
        ~(pc = "done" /\ result = Ok /\ sends = <<>>)

----------------------------------------------------------------------------
(* C11..C17: convertMetrics, checked under ConvertSpec *)

\* the metric points of the event
Points == IF event.Metrics = Nil THEN <<>> ELSE Deref(event.Metrics).Points

\* the bands by exact integer comparison with 10^10, 10^13 and 10^16
Positive(ts) == ~ts.neg /\ ~IsZero64(ts)
InSecondsBand(ts) == Positive(ts) /\ Len(ts.dig) <= 10
InMillisBand(ts) == Positive(ts) /\ Len(ts.dig) \in 11..13
InMicrosBand(ts) == Positive(ts) /\ Len(ts.dig) \in 14..16
InNanosBand(ts) == Positive(ts) /\ Len(ts.dig) >= 17

\* exact products and truncating quotients of a positive integer
TimesThousand(ts) == I64(ts.dig \o <<0, 0, 0>>)
WithoutLast(ts, k) == I64(SubSeq(ts.dig, 1, Len(ts.dig) - k))

\* the tag list of the exposition format: name="value" joined by ", "
Quoted(tag) == tag.Name \o "=\"" \o tag.Value \o "\""
RECURSIVE JoinTags(_)
JoinTags(tags) ==
    IF tags = <<>> THEN ""
    ELSE IF Len(tags) = 1 THEN Quoted(tags[1])
    ELSE JoinTags(SubSeq(tags, 1, Len(tags) - 1)) \o ", "
         \o Quoted(tags[Len(tags)])

\* the line of point p carrying the millisecond timestamp ms
LineWith(p, ms) ==
    p.Name \o "{" \o JoinTags(p.Tags) \o "} " \o ToString(p.Value) \o " "
           \o FormatInt64(ms) \o "\n"

\* the payload returned has, for point i, the line carrying ms
Writes(i, ms) ==
    local.dataString =
        LinesFrom(SubSeq(Points, 1, i - 1), 1)
        \o LineWith(Points[i], ms)
        \o LinesFrom(SubSeq(Points, i + 1, Len(Points)), 1)

\* C11: for every point whose timestamp ts is in the seconds band
\* (0 < ts < 10^10), the timestamp convertMetrics writes is ts * 1000, also
\* close to 10^10 where ts * 10^9 does not fit an int64.
C11_SecondsTimesThousand ==
    pc = "converted" =>
        \A i \in 1..Len(Points) :
            InSecondsBand(Points[i].Timestamp) =>
                Writes(i, TimesThousand(Points[i].Timestamp))

\* C12: for every point whose timestamp ts is in the milliseconds band
\* (10^10 <= ts < 10^13), the timestamp convertMetrics writes is ts.
C12_MillisUnchanged ==
    pc = "converted" =>
        \A i \in 1..Len(Points) :
            InMillisBand(Points[i].Timestamp) =>
                Writes(i, Points[i].Timestamp)

\* C12 witness: the two ends of the band, 10^10 and 10^13 - 1, converted
C12_Witness ==
    /\ pc = "converted"
    /\ Len(Points) = 2
    /\ Points[1].Timestamp.dig = <<1>> \o Zeros(10)
    /\ Points[2].Timestamp.dig = [i \in 1..13 |-> 9]
    /\ local.dataString = "answer{} 42 10000000000\nanswer{} 42 9999999999999\n"

\* C13: for every point whose timestamp ts is in the microseconds band
\* (10^13 <= ts < 10^16), the timestamp convertMetrics writes is the
\* truncating quotient ts / 1000, also near 10^16 where ts * 1000 does not
\* fit an int64.
C13_MicrosDividedByThousand ==
    pc = "converted" =>
        \A i \in 1..Len(Points) :
            InMicrosBand(Points[i].Timestamp) =>
                Writes(i, WithoutLast(Points[i].Timestamp, 3))

\* C14: for every point whose timestamp ts is in the nanoseconds band
\* (10^16 <= ts <= 2^63 - 1), the timestamp convertMetrics writes is the
\* truncating quotient ts / 1000000.
C14_NanosDividedByMillion ==
    pc = "converted" =>
        \A i \in 1..Len(Points) :
            InNanosBand(Points[i].Timestamp) =>
                Writes(i, WithoutLast(Points[i].Timestamp, 6))

\* C14 witness: the two ends of the band, 10^16 and 2^63 - 1, converted
C14_Witness ==
    /\ pc = "converted"
    /\ Len(Points) = 2
    /\ Points[1].Timestamp.dig = <<1>> \o Zeros(16)
    /\ Points[2].Timestamp.dig = MagSub(Two63, <<1>>)
    /\ local.dataString = "answer{} 42 10000000000\nanswer{} 42 9223372036854\n"

\* C15: convertMetrics on an event without a metrics collection (nil
\* Metrics), and on one whose collection has nil or empty points, returns
\* the empty string and no error, and does not crash.
C15_NoMetricsGivesEmpty ==
    (pc # "convert" /\ (event.Metrics = Nil \/ Points = <<>>)) =>
        /\ pc = "converted"
        /\ result = Ok
        /\ local.dataString = ""

\* one line per point, in the order of the points
RECURSIVE ExpectedPayload(_)
ExpectedPayload(points) ==
    IF points = <<>> THEN ""
    ELSE ExpectedPayload(SubSeq(points, 1, Len(points) - 1))
         \o LineWith(points[Len(points)],
                     msTimestamp(points[Len(points)].Timestamp))

\* C16: the payload convertMetrics returns is one newline-terminated line
\* `name{tags} value ts_ms` per metric point, line i built from point i, in
\* the order of the points, none dropped, merged or moved; it is empty
\* exactly when there are no points.
C16_OneLinePerPoint ==
    pc = "converted" =>
        /\ local.dataString = ExpectedPayload(Points)
        /\ local.dataString = "" <=> Len(Points) = 0

\* C16 witness: two different points converted in their order, which is
\* not the order of their names or timestamps
C16_Witness ==
    /\ pc = "converted"
    /\ Len(Points) = 2
    /\ Points[1].Name = "load"
    /\ Points[2].Name = "answer"
    /\ local.dataString =
          "load{} 7 1624376039000\nanswer{foo=\"bar\"} 42 1624376039373\n"

\* the length of the tag list of n tags: each tag is name="value", and
\* n - 1 separators of two characters stand between them
RECURSIVE TagChars(_)
TagChars(tags) ==
    IF tags = <<>> THEN 0
    ELSE Len(Head(tags).Name) + Len(Head(tags).Value) + 3 + TagChars(Tail(tags))
TagListLen(tags) ==
    TagChars(tags) + (IF Len(tags) > 0 THEN 2 * (Len(tags) - 1) ELSE 0)

\* C17: the tag list of a point with n tags holds the n tags as
\* name="value" in their order, joined by n - 1 separators ", " with none
\* after the last tag; without tags it is the empty brace pair.
C17_TagsJoinedInOrder ==
    pc = "converted" =>
        \A i \in 1..Len(Points) :
            LET p  == Points[i]
                ms == FormatInt64(msTimestamp(p.Timestamp))
            IN  /\ Writes(i, msTimestamp(p.Timestamp))
                /\ Len(Points) = 1 =>
                      Len(local.dataString) =
                          Len(p.Name) + 1 + TagListLen(p.Tags) + 2
                          + Len(ToString(p.Value)) + 1 + Len(ms) + 1
                /\ (Len(Points) = 1 /\ p.Tags = <<>>) =>
                      local.dataString =
                          p.Name \o "{} " \o ToString(p.Value) \o " " \o ms \o "\n"

\* C17 witness: a point with two tags converted
C17_Witness ==
    /\ pc = "converted"
    /\ Len(Points) = 1
    /\ Len(Points[1].Tags) = 2
    /\ local.dataString =
          "answer{foo=\"bar\", hey=\"there\"} 42 1624376039373\n"

----------------------------------------------------------------------------
(* C18..C20: the requests, checked under Spec *)

\* the requests built by fn in the current executeHandler call: those handed
\* to client.Do and those reported by a dry run
Built(fn, title) ==
    {wire[i].req : i \in {j \in 1..Len(wire) : wire[j].by = fn}} \cup
    {[Method |-> stdout[i].Method, Url |-> stdout[i].Url,
      Body |-> stdout[i].Data, Header |-> stdout[i].Header] :
        i \in {j \in 1..Len(stdout) : stdout[j].Title = title}}
LogRequests == Built("sendLog", "Dry Run Log Request")
MetricRequests == Built("sendMetrics", "Dry Run Metric Request")

\* the log envelope: the normalized timestamp first, the event second
Envelope(ev) ==
    "[{\"timestamp\":" \o FormatInt64(msTimestamp(ev.Timestamp))
    \o "},{\"event\":" \o jsonMarshal(ev) \o "}]"

\* C18: the body of every log request is the two-element collection whose
\* first element holds the event's timestamp normalized to milliseconds and
\* whose second element holds the event unmodified.
C18_LogBodyIsEnvelope ==
    \A req \in LogRequests : req.Body = Envelope(event)

\* C19: every log request carries the header Content-Type:
\* application/json.
C19_LogContentTypeJson ==
    \A req \in LogRequests : <<"Content-Type", "application/json">> \in req.Header

\* the values of a header of a request
HeaderValues(req, name) == {h[2] : h \in {x \in req.Header : x[1] = name}}

\* C20: every metric request is a POST to the configured URL, its body is
\* the convertMetrics output for the event, and its only Content-Type is
\* application/vnd.sumologic.<format>, which is
\* application/vnd.sumologic.prometheus once checkArgs has passed.
C20_MetricRequestShape ==
    \A req \in MetricRequests :
        /\ req.Method = "POST"
        /\ req.Url = plugin.Url
        /\ req.Body = ExpectedPayload(Points)
        /\ HeaderValues(req, "Content-Type") =
              {"application/vnd.sumologic." \o plugin.Format}
        /\ HeaderValues(req, "Content-Type") =
              {"application/vnd.sumologic.prometheus"}

\* C20 witness: a metric request for two points is on the wire
C20_Witness ==
    /\ pc = "metricsInFlight"
    /\ Len(wire) = 1
    /\ wire[1].by = "sendMetrics"
    /\ wire[1].req.Url = GoodUrl
    /\ wire[1].req.Body =
          "load{} 7 1624376039000\nanswer{foo=\"bar\"} 42 1624376039373\n"

----------------------------------------------------------------------------
(* C21..C24: headers, templates and the number of requests *)

\* the values a header carries when it is sent only for a non-empty value
IfSet(value) == IF value = "" THEN {} ELSE {value}

\* C21: in every request each optional routing header is present exactly
\* when its configured value is not empty, and then carries that value; no
\* header is sent with an empty value; metric requests carry no
\* X-Sumo-Fields and log requests no X-Sumo-Dimensions or X-Sumo-Metadata.
C21_OptionalHeaders ==
    /\ \A req \in MetricRequests \cup LogRequests :
          /\ HeaderValues(req, "X-Sumo-Host") = IfSet(plugin.SourceHost)
          /\ HeaderValues(req, "X-Sumo-Name") = IfSet(plugin.SourceName)
          /\ HeaderValues(req, "X-Sumo-Category") = IfSet(plugin.SourceCategory)
          /\ \A h \in req.Header : h[2] # ""
    /\ \A req \in MetricRequests :
          /\ HeaderValues(req, "X-Sumo-Dimensions") = IfSet(plugin.MetricDimensions)
          /\ HeaderValues(req, "X-Sumo-Metadata") = IfSet(plugin.MetricMetadata)
          /\ HeaderValues(req, "X-Sumo-Fields") = {}
    /\ \A req \in LogRequests :
          /\ HeaderValues(req, "X-Sumo-Fields") = IfSet(plugin.LogFields)
          /\ HeaderValues(req, "X-Sumo-Dimensions") = {}
          /\ HeaderValues(req, "X-Sumo-Metadata") = {}

\* C21 witness: a metric and a log request are out, with dimensions on the
\* first and fields on the second, a host on both and a category on neither
C21_Witness ==
    /\ Len(wire) = 2
    /\ wire[1].by = "sendMetrics"
    /\ wire[2].by = "sendLog"
    /\ HeaderValues(wire[1].req, "X-Sumo-Dimensions") = {"environment=production"}
    /\ HeaderValues(wire[2].req, "X-Sumo-Fields") = {"team=ops"}
    /\ HeaderValues(wire[1].req, "X-Sumo-Host") = {"entity1"}
    /\ HeaderValues(wire[2].req, "X-Sumo-Host") = {"entity1"}
    /\ HeaderValues(wire[1].req, "X-Sumo-Category") = {}
    /\ HeaderValues(wire[2].req, "X-Sumo-Category") = {}

\* C22: in every request executeHandler sends, whatever calls were made
\* before in the process with other templates, X-Sumo-Name is present
\* exactly when the current source-name template is not empty, and so are
\* X-Sumo-Host and X-Sumo-Category for their templates.  Stated for events
\* with a check, on which every template of the pool renders.
C22_HeaderIffTemplate ==
    event.Check # Nil =>
        \A req \in MetricRequests \cup LogRequests :
            /\ HeaderValues(req, "X-Sumo-Name") # {}
                  <=> plugin.SourceNameTemplate # ""
            /\ HeaderValues(req, "X-Sumo-Host") # {}
                  <=> plugin.SourceHostTemplate # ""
            /\ HeaderValues(req, "X-Sumo-Category") # {}
                  <=> plugin.SourceCategoryTemplate # ""

\* a template of the current call fails to render
HostFails == plugin.SourceHostTemplate # ""
                /\ EvalTemplate(plugin.SourceHostTemplate, event).err
NameFails == plugin.SourceNameTemplate # ""
                /\ EvalTemplate(plugin.SourceNameTemplate, event).err
CategoryFails == plugin.SourceCategoryTemplate # ""
                    /\ EvalTemplate(plugin.SourceCategoryTemplate, event).err
TemplateFails == HostFails \/ NameFails \/ CategoryFails

\* a call that has decided makes the deliveries it decided on, metrics
\* first, and returns nil or what its last delivery returned
DeliversAsDecided ==
    /\ local.doMetrics = decideMetrics(plugin, ExpectedPayload(Points))
    /\ Called("sendMetrics") <=> local.doMetrics
    /\ Called("sendLog") => local.doLog
    /\ pc = "done" =>
          /\ result = Ok \/ (sends # <<>> /\ result = sends[Len(sends)].ret)
          /\ result = Ok /\ local.doLog => Called("sendLog")
          /\ \A i \in 1..Len(sends) : i < Len(sends) => sends[i].ret = Ok

\* C23: a template that fails to render does not make executeHandler
\* return: the call goes on to its routing decision, attempts the deliveries
\* decided and returns what they return; and every source field whose
\* template failed has after the call the value it had before.
C23_TemplateFailureDoesNotAbort ==
    /\ [](TemplateFails /\ pc \in {"metricsInFlight", "logInFlight", "done"}
            => DeliversAsDecided)
    /\ [][pc = "checked" /\ pc' # "checked" =>
            /\ HostFails => plugin'.SourceHost = plugin.SourceHost
            /\ NameFails => plugin'.SourceName = plugin.SourceName
            /\ CategoryFails => plugin'.SourceCategory = plugin.SourceCategory
            /\ TemplateFails /\ event.Metrics # Nil
                  => pc' \in {"metricsInFlight", "logInFlight", "done"}]_vars

\* C23 witness: the category template fails on an event without a check in
\* a call that found "sensu-events" left by the call before; the field
\* still holds it, the metric delivery was made and accepted
C23_Witness ==
    /\ pc = "done"
    /\ CategoryFails
    /\ plugin.SourceCategory = "sensu-events"
    /\ calls = 2
    /\ Called("sendMetrics")
    /\ Len(wire) >= 1
    /\ HeaderValues(wire[1].req, "X-Sumo-Category") = {"sensu-events"}
    /\ result = Ok

\* how many requests fn has built in the current call, sent or reported
Requests(fn, title) ==
    Cardinality({i \in 1..Len(wire) : wire[i].by = fn})
    + Cardinality({i \in 1..Len(stdout) : stdout[i].Title = title})

\* C24: one executeHandler call issues at most two requests, at most one
\* metric request and at most one log request, whatever the requests are
\* answered; a request that failed is not sent again.
C24_AtMostTwoRequests ==
    /\ Len(wire) + Len(stdout) <= 2
    /\ Requests("sendMetrics", "Dry Run Metric Request") <= 1
    /\ Requests("sendLog", "Dry Run Log Request") <= 1
    /\ Len(sends) <= 2
    /\ Len(answers) <= Len(wire)
    /\ pc = "done" /\ result # Ok =>
          \A i \in 1..Len(sends) : sends[i].ret # Ok => i = Len(sends)

\* C24 witness: both requests went out, the log request was answered with a
\* transport error and executeHandler returned it with two requests made
C24_Witness ==
    /\ pc = "done"
    /\ Len(wire) = 2
    /\ Len(answers) = 2
    /\ answers[2].err
    /\ result.kind = "transport"

----------------------------------------------------------------------------
(* C25..C27: the bands of the timestamp switch, checked under ConvertSpec *)

\* what the case of the switch for a band writes (main.go:597-607)
ConvertedAs(band, ts) ==
    CASE band = "seconds" -> DivPow10(MulPow10(ts, 9), 6)
      [] band = "millis"  -> ts
      [] band = "micros"  -> DivPow10(MulPow10(ts, 3), 6)
      [] band = "nanos"   -> DivPow10(ts, 6)

\* the band of a positive timestamp by exact comparison with 10^10, 10^13
\* and 10^16
ExactBand(ts) ==
    IF InSecondsBand(ts) THEN "seconds"
    ELSE IF InMillisBand(ts) THEN "millis"
    ELSE IF InMicrosBand(ts) THEN "micros"
    ELSE "nanos"

\* C25: for a positive timestamp the switch takes the case of the band the
\* exact integer comparison with 10^10, 10^13 and 10^16 gives: 10^k - 1 is
\* converted as the lower band and 10^k as the upper band, and the
\* conversion to floating point moves no value into another band.
C25_BandsByExactComparison ==
    pc = "converted" =>
        \A i \in 1..Len(Points) :
            Positive(Points[i].Timestamp) =>
                Writes(i, ConvertedAs(ExactBand(Points[i].Timestamp),
                                      Points[i].Timestamp))

\* C26: convertMetrics takes zero and negative timestamps without error and
\* classifies them by magnitude: one whose magnitude is below 10^10 is
\* converted as seconds, to ts * 1000.
C26_ZeroAndNegativeAsSeconds ==
    pc # "convert" /\ event.Metrics # Nil =>
        /\ pc = "converted"
        /\ result = Ok
        /\ \A i \in 1..Len(Points) :
              LET ts == Points[i].Timestamp
              IN  (~Positive(ts) /\ Len(ts.dig) <= 10) =>
                      Writes(i, IF IsZero64(ts) THEN Zero64
                                ELSE [neg |-> TRUE, dig |-> ts.dig \o <<0, 0, 0>>])

\* a <= b for int64 values
Leq64(a, b) ==
    IF a.neg /\ ~b.neg THEN TRUE
    ELSE IF ~a.neg /\ b.neg THEN FALSE
    ELSE IF a.neg THEN ~MagLess(a.dig, b.dig)
    ELSE ~MagLess(b.dig, a.dig)

\* C27: two timestamps a <= b of the same band are written in that order:
\* the value written for a is at most the value written for b.
C27_MonotonicWithinBand ==
    pc = "converted" =>
        \A i, j \in 1..Len(Points) :
            LET a == Points[i].Timestamp
                b == Points[j].Timestamp
            IN  /\ Writes(i, msTimestamp(a))
                /\ Writes(j, msTimestamp(b))
                /\ (Positive(a) /\ Positive(b) /\ ExactBand(a) = ExactBand(b)
                        /\ Leq64(a, b))
                      => Leq64(msTimestamp(a), msTimestamp(b))

----------------------------------------------------------------------------
(* C28..C30: request construction, the configuration, response bodies *)

\* C28: when http.NewRequest fails on the URL, sendMetrics and sendLog
\* return an error, nothing goes to the network or to the dry-run report
\* and neither crashes; executeHandler returns that error and attempts no
\* further delivery.
C28_NewRequestFailure ==
    NewRequestFails(plugin.Url) =>
        /\ wire = <<>>
        /\ stdout = <<>>
        /\ Len(sends) <= 1
        /\ \A i \in 1..Len(sends) : sends[i].ret.kind = "newrequest"
        /\ pc \notin {"metricsInFlight", "logInFlight"}
        /\ pc = "done" /\ sends # <<>> => result = sends[1].ret
        /\ pc = "done" /\ sends = <<>> =>
              result = Ok /\ ~local.doMetrics /\ ~local.doLog
        /\ pc = "panic" => sends = <<>>

\* C28 witness: with both deliveries decided, sendMetrics returned the
\* error of http.NewRequest and executeHandler returned it without sendLog
C28_Witness ==
    /\ plugin.Url = BadUrl
    /\ pc = "done"
    /\ local.doMetrics
    /\ local.doLog
    /\ Len(sends) = 1
    /\ sends[1].fn = "sendMetrics"
    /\ result.kind = "newrequest"

\* a step of checkArgs or executeHandler (the other steps are the test's)
HandlerStep == pc \in {"start", "checked", "metricsInFlight", "logInFlight"}

\* the fields the options bind, Verbose aside
OptionFields ==
    {"Url", "Format", "DryRun", "AlwaysSendLog", "DisableSendLog",
     "DisableSendMetrics", "SourceNameTemplate", "SourceHostTemplate",
     "SourceCategoryTemplate", "MetricDimensions", "MetricMetadata",
     "LogFields"}

\* C29: checkArgs and executeHandler, template rendering and both
\* deliveries included, leave every field of the plugin configuration as it
\* was.
C29_ConfigurationReadOnly ==
    [][HandlerStep => plugin' = plugin]_vars

\* C29 as amended: checkArgs and executeHandler leave every field bound by
\* an option as it was, except that checkArgs sets Verbose when dry-run is
\* set; executeHandler writes only SourceHost, SourceName and
\* SourceCategory, each only when its template is not empty.
C29_OptionsReadOnly ==
    [][HandlerStep =>
        /\ \A f \in OptionFields : plugin'[f] = plugin[f]
        /\ plugin'.Verbose # plugin.Verbose =>
              pc = "start" /\ plugin.DryRun /\ plugin'.Verbose
        /\ pc # "checked" =>
              /\ plugin'.SourceHost = plugin.SourceHost
              /\ plugin'.SourceName = plugin.SourceName
              /\ plugin'.SourceCategory = plugin.SourceCategory
        /\ plugin.SourceHostTemplate = "" => plugin'.SourceHost = plugin.SourceHost
        /\ plugin.SourceNameTemplate = "" => plugin'.SourceName = plugin.SourceName
        /\ plugin.SourceCategoryTemplate = ""
              => plugin'.SourceCategory = plugin.SourceCategory]_vars

\* C29 witness: a dry run is over in which checkArgs has set Verbose and
\* executeHandler has written the rendered host and name
C29_Witness ==
    /\ pc = "done"
    /\ calls = 1
    /\ plugin.DryRun
    /\ plugin.Verbose
    /\ plugin.SourceHost = "entity1"
    /\ plugin.SourceName = "check1"
    /\ plugin.SourceHostTemplate = defaultHostTemplate

\* C30: every response sendMetrics or sendLog obtained has its body closed
\* when the function has returned, after a 2xx status and after any other
\* status alike.
C30_BodiesClosed ==
    unclosed = 0

====
